---- MODULE Spec2Model ----
(***************************************************************************)
(* Model of oceanwaves/wavedroid.py: the WaveDroidReader object, its       *)
(* header and record parsers and the directional spectrum reconstruction.  *)
(*                                                                         *)
(* The source is Python 2 code (map() returns a list, ndir/2 is an integer *)
(* division, len() is taken of the result of map); the model follows the   *)
(* Python 2 semantics of those constructs.                                 *)
(*                                                                         *)
(* A text line is modelled by the result of the splits the code applies to *)
(* it: `key` is the leading word of the line ("" when the line does not    *)
(* start with a word), `fields` is the line split on ';', and every field  *)
(* is the list of its ','-separated tokens.  A header line "k = v1,v2" has *)
(* one field <<v1, v2>>.  Tokens are strings; the conversions float(),     *)
(* int(), strptime() and pytz.timezone() are tables on tokens that fail on *)
(* every token outside their domain.                                       *)
(***************************************************************************)
EXTENDS Integers, Sequences, FiniteSets, TLC

VARIABLES self, pc, err, call, calls, ow

vars == <<self, pc, err, call, calls, ow>>

(***************************************************************************)
(* Bounds of the model.                                                    *)
(***************************************************************************)
MaxBody == 2      \* lines after the header block of an input file
MaxNdir == 4      \* largest ndir a caller passes to compute_spectrum
MaxCalls == 2     \* public method calls made on one reader object

DefaultNdir == 360   \* compute_spectrum(self, ndir=360)
FullCircle == 360    \* np.linspace(0.,360.-360./ndir,ndir)

(***************************************************************************)
(* Tokens and the conversions applied to them.                             *)
(***************************************************************************)
TsTok == {"2016-01-01 00:00:01", "2016-01-01 00:00:02", "2016-01-01 00:00:03"}
FloatTok == {"0", "1", "2", "30"}
DigitTok == TsTok \cup FloatTok       \* tokens whose first character is 0-9
KnownZones == {"UTC"}

\* datetime.strptime(s, WD_TIME_FORMAT): seconds of the parsed time
strptime(s) ==
    CASE s = "2016-01-01 00:00:01" -> 1
      [] s = "2016-01-01 00:00:02" -> 2
      [] s = "2016-01-01 00:00:03" -> 3

\* float(s) / int(s) on a decimal literal
float(s) ==
    CASE s = "0" -> 0
      [] s = "1" -> 1
      [] s = "2" -> 2
      [] s = "30" -> 30

\* a field is a float literal iff it is one token (no comma) float() accepts
IsFloatField(fld) == Len(fld) = 1 /\ fld[1] \in FloatTok
IsTimeField(fld) == Len(fld) = 1 /\ fld[1] \in TsTok

\* np.asarray(text.split(','), dtype=float)
IsFloatList(fld) == \A x \in 1..Len(fld) : fld[x] \in FloatTok
asarray(fld) == [x \in 1..Len(fld) |-> float(fld[x])]

\* the greedy run a character-class regex takes from the start of a token:
\* the whole token when it lies in the class, nothing otherwise
Run(tok, class) == IF tok \in class THEN tok ELSE ""

\* any(seq) on a sequence of numbers
any(xs) == \E x \in 1..Len(xs) : xs[x] # 0

\* the public method called last, with the ndir its compute_spectrum runs with
Called(m, ndir) == [method |-> m, ndir |-> ndir]

NoErr == [type |-> "none", in |-> "none"]
Raise(t, m) == [type |-> t, in |-> m]

(***************************************************************************)
(* Input files.                                                            *)
(***************************************************************************)
Hdr(k, toks) == [key |-> k, fields |-> <<toks>>]
Rec(flds) == [key |-> "", fields |-> flds]

Scalars(ts) == << <<ts>>, <<"1">>, <<"2">>, <<"30">>, <<"2">>, <<"2">>, <<"2">> >>

BodyLines ==
    { Rec(Scalars("2016-01-01 00:00:03")),
      Rec(Scalars("2016-01-01 00:00:02")
          \o << <<"2">>, <<"0">>, <<"1">>, <<"0">>, <<"0">> >>),
      Rec(Scalars("2016-01-01 00:00:01")
          \o << <<"2", "1">>, <<"0", "1">>, <<"1", "0">>, <<"0", "1">>, <<"0", "0">> >>),
      Rec(<< <<"">> >>) }

RECURSIVE SeqsUpTo(_, _)
SeqsUpTo(S, k) ==
    IF k = 0 THEN {<<>>}
    ELSE LET shorter == SeqsUpTo(S, k - 1)
         IN  shorter \cup {Append(b, x) : b \in shorter, x \in S}

Bodies == SeqsUpTo(BodyLines, MaxBody)

StationBlocks ==
    { <<>>,
      << Hdr("version", <<"1">>), Hdr("ID", <<"WD1">>), Hdr("sensor", <<"x">>),
         Hdr("location", <<"x">>), Hdr("latitude", <<"1">>),
         Hdr("longitude", <<"2">>) >> }

CompassBlocks ==
    { <<>>,
      << Hdr("magdec", <<"0">>), Hdr("timezone", <<"UTC">>) >>,
      << Hdr("magdec", <<"30">>), Hdr("timezone", <<"UTC">>) >> }

FreqBlocks ==
    { <<>>,
      << Hdr("frequencies", <<"">>) >>,
      << Hdr("frequencies", <<"0">>) >>,
      << Hdr("frequencies", <<"1">>) >>,
      << Hdr("frequencies", <<"1", "2">>) >> }

Files ==
    { s \o c \o f \o b :
        s \in StationBlocks, c \in CompassBlocks, f \in FreqBlocks, b \in Bodies }

\* the files read one after the other by one reader object
SeqFiles ==
    { s \o c \o f \o b :
        s \in StationBlocks,
        c \in { << Hdr("magdec", <<"0">>), Hdr("timezone", <<"UTC">>) >> },
        f \in { << Hdr("frequencies", <<"1">>) >>, << Hdr("frequencies", <<"2">>) >> },
        b \in { << Rec(Scalars("2016-01-01 00:00:02")
                       \o << <<"2">>, <<"0">>, <<"1">>, <<"0">>, <<"0">> >>) >> } }

(***************************************************************************)
(* The reader object.  `attrs` holds the names of the attributes that are  *)
(* created outside reset(); reading one that is not there raises           *)
(* AttributeError.                                                         *)
(***************************************************************************)
list == [type |-> "list", a |-> <<>>]

reset(s) ==
    [s EXCEPT !.stationary = FALSE, !.directional = FALSE,
              !.version = <<>>, !.timecoding = "None", !.comments = <<>>,
              !.time = <<>>, !.energy_units = "None", !.frequencies = <<>>,
              !.directions = <<>>, !.energy = list]

Bare ==
    [attrs |-> {}, stationary |-> FALSE, directional |-> FALSE, version |-> <<>>,
     timecoding |-> "None", comments |-> <<>>, time |-> <<>>,
     energy_units |-> "None", frequencies |-> <<>>, directions |-> <<>>,
     energy |-> list, lines |-> <<>>, n |-> 0,
     Hm0 |-> <<>>, Tp |-> <<>>, Dirp |-> <<>>, Tavg |-> <<>>, Hmax |-> <<>>,
     Tmax |-> <<>>, Puu |-> <<>>, th0 |-> <<>>, m1 |-> <<>>, m2 |-> <<>>,
     n2 |-> <<>>, th0_cor |-> <<>>, id |-> "", location |-> "", latitude |-> 0,
     longitude |-> 0, magdec |-> 0, timezone |-> ""]

Has(s, a) == a \in s.attrs
Set(s, a) == s.attrs \cup {a}

Init ==
    /\ self = reset(Bare)
    /\ pc = "idle"
    /\ err = NoErr
    /\ call = Called("__init__", 0)
    /\ calls = 0
    /\ ow = <<>>

(***************************************************************************)
(* parse_header and the per-keyword parsers.                               *)
(***************************************************************************)
Ok(s) == [s |-> s, e |-> NoErr]
Fail(s, t, m) == [s |-> s, e |-> Raise(t, m)]

\* re.match('^[0-9]', line)
MatchDigit(line) == line.key = "" /\ line.fields[1][1] \in DigitTok

\* the text after "key = " up to the first comma
Value(line) == line.fields[1][1]

parse_version(s, line) ==
    LET g == Run(Value(line), FloatTok)
    IN  IF g = "" THEN Fail(s, "ValueError", "parse_version")
        ELSE Ok([s EXCEPT !.version = <<float(g)>>])

parse_id(s, line) ==
    LET g == Run(Value(line), {"WD1"})
    IN  IF g = "" THEN Fail(s, "AttributeError", "parse_id")
        ELSE Ok([s EXCEPT !.id = g, !.attrs = Set(s, "id"),
                          !.comments = Append(@, <<"WaveDroid ID = ", g>>)])

parse_location(s, line) ==
    LET g == Value(line)
    IN  Ok([s EXCEPT !.location = g, !.attrs = Set(s, "location"),
                     !.comments = Append(@, <<"WaveDroid location = ", g>>)])

parse_lat(s, line) ==
    LET g == Run(Value(line), FloatTok)
    IN  IF g = "" THEN Fail(s, "ValueError", "parse_lat")
        ELSE Ok([s EXCEPT !.latitude = float(g), !.attrs = Set(s, "latitude")])

parse_lon(s, line) ==
    LET g == Run(Value(line), FloatTok)
    IN  IF g = "" THEN Fail(s, "ValueError", "parse_lon")
        ELSE Ok([s EXCEPT !.longitude = float(g), !.attrs = Set(s, "longitude")])

parse_magdec(s, line) ==
    LET g == Run(Value(line), FloatTok)
    IN  IF g = "" THEN Fail(s, "ValueError", "parse_magdec")
        ELSE Ok([s EXCEPT !.magdec = float(g), !.attrs = Set(s, "magdec")])

parse_tz(s, line) ==
    LET g == Run(Value(line), KnownZones \cup FloatTok \cup {"x", "WD1"})
    IN  Ok([s EXCEPT !.timezone = g, !.attrs = Set(s, "timezone"),
                     !.comments = Append(@, <<"Timezone = ", g>>)])

\* the regex keeps the leading run of digits, dots and commas; a token
\* outside that class cuts the run and leaves an empty last element
parse_freq(s, line) ==
    LET toks == line.fields[1]
    IN  IF IsFloatList(toks) THEN Ok([s EXCEPT !.frequencies = asarray(toks)])
        ELSE Fail(s, "ValueError", "parse_freq")

Dispatch(s, line) ==
    CASE line.key = "version" -> parse_version(s, line)
      [] line.key = "ID" -> parse_id(s, line)
      [] line.key = "location" -> parse_location(s, line)
      [] line.key = "latitude" -> parse_lat(s, line)
      [] line.key = "longitude" -> parse_lon(s, line)
      [] line.key = "magdec" -> parse_magdec(s, line)
      [] line.key = "timezone" -> parse_tz(s, line)
      [] line.key = "frequencies" -> parse_freq(s, line)
      [] OTHER -> Ok(s)

\* self.lines[self.n]
HasCurrentLine(s) == s.n < Len(s.lines)
_currentline(s) == s.lines[s.n + 1]

\* self.lines[self.n:]
_currentlines(s) == SubSeq(s.lines, s.n + 1, Len(s.lines))

RECURSIVE HeaderLoop(_)
HeaderLoop(s) ==
    IF ~HasCurrentLine(s) THEN Fail(s, "IndexError", "_currentline")
    ELSE IF MatchDigit(_currentline(s)) THEN Ok(s)
    ELSE LET r == Dispatch(s, _currentline(s))
         IN  IF r.e # NoErr THEN r
             ELSE HeaderLoop([r.s EXCEPT !.n = @ + 1])

(***************************************************************************)
(* readfile, first part: read the lines, reset the line counter.           *)
(***************************************************************************)
readfile(f) ==
    /\ pc = "idle"
    /\ calls < MaxCalls
    /\ self' = [self EXCEPT !.lines = f, !.n = 0,
                            !.attrs = @ \cup {"lines", "n"}]
    /\ pc' = "parse_header"
    /\ err' = NoErr
    /\ call' = Called("readfile", DefaultNdir)
    /\ calls' = calls + 1
    /\ UNCHANGED ow

parse_header ==
    /\ pc = "parse_header"
    /\ LET r == HeaderLoop(self)
       IN  /\ self' = r.s
           /\ err' = r.e
           /\ pc' = IF r.e = NoErr THEN "parse_data" ELSE "idle"
    /\ UNCHANGED <<call, calls, ow>>

(***************************************************************************)
(* parse_data: one record per remaining line.  The appends of a line run   *)
(* in field order, so a line that fails at field k leaves the values of    *)
(* the fields before k appended.                                           *)
(***************************************************************************)
\* re.split(';', line); a line without ';' is one field
split(line) == IF line.key = "" THEN line.fields ELSE << <<line.key>> >>

\* a list that grows at the front
prepend(xs, x) == <<x>> \o xs

\* list.append(x)
append(xs, x) == Append(xs, x)

\* a naive datetime, and tz.localize(dt)
naive(t) == [t |-> t, tz |-> ""]
localize(tz, dt) == [dt EXCEPT !.tz = tz]

\* number of leading fields of a record line the code reads
Needed(s) == IF any(s.frequencies) THEN 12 ELSE 7

\* the exception raised when field k (0-based) of vals is read, "none" if none
FieldErr(vals, k) ==
    IF k + 1 > Len(vals) THEN "IndexError"
    ELSE IF k = 0 THEN (IF IsTimeField(vals[1]) THEN "none" ELSE "ValueError")
    ELSE IF k <= 6 THEN (IF IsFloatField(vals[k + 1]) THEN "none" ELSE "ValueError")
    ELSE (IF IsFloatList(vals[k + 1]) THEN "none" ELSE "ValueError")

\* index of the first field that raises, Needed(s) when the line is accepted
FailAt(s, vals) ==
    LET bad == {k \in 0..(Needed(s) - 1) : FieldErr(vals, k) # "none"}
    IN  IF bad = {} THEN Needed(s)
        ELSE CHOOSE k \in bad : \A k2 \in bad : k <= k2

DataLine(s, line) ==
    LET vals == split(line)
        fa == FailAt(s, vals)
        sp == any(s.frequencies)
        s2 == [s EXCEPT
                 !.time = IF fa > 0 THEN append(@, naive(strptime(vals[1][1]))) ELSE @,
                 !.Hm0 = IF fa > 1 THEN append(@, float(vals[2][1])) ELSE @,
                 !.Tp = IF fa > 2 THEN append(@, float(vals[3][1])) ELSE @,
                 !.Dirp = IF fa > 3 THEN append(@, float(vals[4][1])) ELSE @,
                 !.Tavg = IF fa > 4 THEN append(@, float(vals[5][1])) ELSE @,
                 !.Hmax = IF fa > 5 THEN append(@, float(vals[6][1])) ELSE @,
                 !.Tmax = IF fa > 6 THEN append(@, float(vals[7][1])) ELSE @,
                 !.Puu = IF sp /\ fa > 7 THEN append(@, asarray(vals[8])) ELSE @,
                 !.th0 = IF sp /\ fa > 8 THEN append(@, asarray(vals[9])) ELSE @,
                 !.m1 = IF sp /\ fa > 9 THEN append(@, asarray(vals[10])) ELSE @,
                 !.m2 = IF sp /\ fa > 10 THEN append(@, asarray(vals[11])) ELSE @,
                 !.n2 = IF sp /\ fa > 11 THEN append(@, asarray(vals[12])) ELSE @]
    IN  IF fa = Needed(s) THEN Ok(s2)
        ELSE Fail(s2, FieldErr(vals, fa), "parse_data")

RECURSIVE DataLoop(_, _)
DataLoop(s, lines) ==
    IF lines = <<>> THEN Ok(s)
    ELSE LET r == DataLine(s, Head(lines))
         IN  IF r.e # NoErr THEN r ELSE DataLoop(r.s, Tail(lines))

DataInit(s) ==
    LET s1 == [s EXCEPT !.Hm0 = <<>>, !.Tp = <<>>, !.Dirp = <<>>, !.Tavg = <<>>,
                        !.Hmax = <<>>, !.Tmax = <<>>,
                        !.attrs = @ \cup {"Hm0", "Tp", "Dirp", "Tavg", "Hmax", "Tmax"}]
    IN  IF any(s.frequencies)
        THEN [s1 EXCEPT !.Puu = <<>>, !.th0 = <<>>, !.m1 = <<>>, !.m2 = <<>>,
                        !.n2 = <<>>, !.directional = TRUE,
                        !.attrs = @ \cup {"Puu", "th0", "m1", "m2", "n2"}]
        ELSE s1

parse_data ==
    /\ pc = "parse_data"
    /\ LET r == DataLoop(DataInit(self), _currentlines(self))
       IN  /\ self' = r.s
           /\ err' = r.e
           /\ pc' = IF r.e = NoErr THEN "make_aware" ELSE "idle"
    /\ UNCHANGED <<call, calls, ow>>

(***************************************************************************)
(* make_aware: map(tz.localize, self.time).  pytz refuses to localize a    *)
(* datetime that already carries a zone.                                   *)
(***************************************************************************)
make_aware ==
    /\ pc = "make_aware"
    /\ LET e == IF ~Has(self, "timezone") THEN Raise("AttributeError", "make_aware")
                ELSE IF self.timezone \notin KnownZones
                     THEN Raise("UnknownTimeZoneError", "make_aware")
                ELSE IF \E x \in 1..Len(self.time) : self.time[x].tz # ""
                     THEN Raise("ValueError", "make_aware")
                ELSE NoErr
       IN  /\ err' = e
           /\ pc' = IF e = NoErr THEN "readfile_energy" ELSE "idle"
           /\ self' = IF e = NoErr
                      THEN [self EXCEPT !.time =
                              [x \in 1..Len(@) |-> localize(self.timezone, @[x])]]
                      ELSE self
    /\ UNCHANGED <<call, calls, ow>>

(***************************************************************************)
(* Exact arithmetic for the two np.linspace calls.  A rational is a pair   *)
(* <<numerator, denominator>> in lowest terms with a positive denominator. *)
(***************************************************************************)
RECURSIVE GCD(_, _)
GCD(a, b) == IF b = 0 THEN a ELSE GCD(b, a % b)

Abs(a) == IF a < 0 THEN -a ELSE a

Rat(a, b) ==
    LET g == GCD(Abs(a), Abs(b))
        sg == IF b < 0 THEN -1 ELSE 1
    IN  <<(sg * a) \div g, (sg * b) \div g>>

RAdd(x, y) == Rat(x[1] * y[2] + y[1] * x[2], x[2] * y[2])
RSub(x, y) == Rat(x[1] * y[2] - y[1] * x[2], x[2] * y[2])
RMul(x, y) == Rat(x[1] * y[1], x[2] * y[2])
RDiv(x, y) == Rat(x[1] * y[2], x[2] * y[1])

\* np.linspace(start, stop, num), endpoint included
linspace(start, stop, num) ==
    IF num = 1 THEN <<start>>
    ELSE LET step == RDiv(RSub(stop, start), <<num - 1, 1>>)
         IN  [x \in 1..num |-> RAdd(start, RMul(<<x - 1, 1>>, step))]

(***************************************************************************)
(* The value of                                                            *)
(*   1/pi*(.5 + m*cos(r-t) + mm*cos(2*(r-t)) + nn*sin(2*(r-t)))*p          *)
(* kept in closed form.  The lattice angle r is q*pi with q rational; t is *)
(* the number read from the file plus magdec, used as radians.  The value  *)
(* is 2*pi-periodic in r, so q is reduced modulo 2; it is 0 when p = 0 and *)
(* does not depend on the angles when m = mm = nn = 0.  Two equal closed   *)
(* forms are equal numbers.  Since pi is transcendental, for p # 0, some   *)
(* moment # 0 and t >= 0 (all inputs of the model are non-negative), two   *)
(* closed forms with different t are different numbers.                    *)
(***************************************************************************)
Mod2(q) == <<q[1] % (2 * q[2]), q[2]>>

Density(p, m, mm, nn, q, t) ==
    IF p = 0 THEN [p |-> 0, m |-> 0, mm |-> 0, nn |-> 0, q |-> <<0, 1>>, t |-> 0]
    ELSE IF m = 0 /\ mm = 0 /\ nn = 0
         THEN [p |-> p, m |-> 0, mm |-> 0, nn |-> 0, q |-> <<0, 1>>, t |-> 0]
    ELSE [p |-> p, m |-> m, mm |-> mm, nn |-> nn, q |-> Mod2(q), t |-> t]

\* what np.empty can leave in a cell the loop never writes
Uninitialized ==
    { [p |-> 0, m |-> 0, mm |-> 0, nn |-> 0, q |-> <<0, 1>>, t |-> 0],
      [p |-> -1, m |-> 0, mm |-> 0, nn |-> 0, q |-> <<0, 1>>, t |-> 0] }

\* element k of a length-1 or full-length operand under numpy broadcasting
Bcast(v, k) == IF Len(v) = 1 THEN v[1] ELSE v[k]

\* np.roll(row, shift) along the direction axis
roll(row, shift) ==
    [x \in 1..Len(row) |-> row[((x - 1 - shift) % Len(row)) + 1]]

\* a shift one bin too far
RollShiftOff(ndir) == ndir \div 2 + 1

\* the shift handed to np.roll: ndir/2
RollShift(ndir) == ndir \div 2

\* no evenness check at all
OddNdirUnchecked(ndir) == FALSE

\* np.remainder(ndir,2) != 0
OddNdir(ndir) == ndir % 2 # 0

\* self.add_magdec(x) mapped over the elements of one th0 array
add_magdec(s, x) == [k \in 1..Len(x) |-> x[k] + s.magdec]

\* np.linspace(-np.pi,np.pi-2*np.pi/ndir,ndir), in units of pi
Rad(ndir) == linspace(<<-1, 1>>, Rat(ndir - 2, ndir), ndir)

\* np.linspace(0.,360.-360./ndir,ndir)
Directions(ndir) ==
    linspace(<<0, 1>>, Rat(FullCircle * ndir - FullCircle, ndir), ndir)

\* rows the zip of Puu, th0_cor, m1, m2, n2 yields
Min(S) == CHOOSE x \in S : \A y \in S : x <= y
Max(S) == CHOOSE x \in S : \A y \in S : x >= y
Zipped(s) == Min({Len(s.Puu), Len(s.th0), Len(s.m1), Len(s.m2), Len(s.n2)})

RowLens(s, i) ==
    {Len(s.Puu[i]), Len(s.th0[i]), Len(s.m1[i]), Len(s.m2[i]), Len(s.n2[i])}

\* the exception row i (1-based) of the loop raises at its first assignment
RowErr(s, i) ==
    IF Cardinality(RowLens(s, i) \ {1}) > 1 THEN "ValueError"
    ELSE IF i > Len(s.time) THEN "IndexError"
    ELSE IF Max(RowLens(s, i)) \notin {1, Len(s.frequencies)} THEN "ValueError"
    ELSE "none"

\* the contents np.empty can have: they show only in the rows of spec past
\* the zipped lists, which the loop leaves as they are
Junk(s) ==
    IF Len(s.time) > Zipped(s) /\ s.frequencies # <<>>
    THEN Uninitialized
    ELSE {CHOOSE v \in Uninitialized : v.p = 0}

\* spec[i,:,:] as the loop fills it from row i of the zipped lists, t being
\* the row of th0_cor, before the roll
SpecRow(s, i, t, ndir) ==
    LET rad == Rad(ndir)
    IN  [k \in 1..Len(s.frequencies) |->
           [x \in 1..ndir |->
              Density(Bcast(s.Puu[i], k), Bcast(s.m1[i], k), Bcast(s.m2[i], k),
                      Bcast(s.n2[i], k), rad[x], Bcast(t, k))]]

compute_spectrum(s, ndir, junk) ==
    IF OddNdir(ndir) THEN Fail(s, "ValueError", "compute_spectrum")
    ELSE IF ndir = 0 THEN Fail(s, "ZeroDivisionError", "compute_spectrum")
    ELSE IF ~Has(s, "th0") THEN Fail(s, "AttributeError", "compute_spectrum")
    ELSE IF s.th0 # <<>> /\ ~Has(s, "magdec")
         THEN Fail(s, "AttributeError", "add_magdec")
    ELSE
      LET s1 == [s EXCEPT !.th0_cor = [i \in 1..Len(s.th0) |-> add_magdec(s, s.th0[i])],
                          !.attrs = @ \cup {"th0_cor"}]
          bad == {i \in 1..Zipped(s) : RowErr(s, i) # "none"}
      IN  IF bad # {} THEN Fail(s1, RowErr(s, Min(bad)), "compute_spectrum")
          ELSE Ok([s1 EXCEPT
                 !.energy =
                    [type |-> "ndarray",
                     a |-> [i \in 1..Len(s.time) |->
                              IF i <= Zipped(s)
                              THEN LET row == SpecRow(s, i, s1.th0_cor[i], ndir)
                                   IN  [k \in 1..Len(s.frequencies) |->
                                          roll(row[k], RollShift(ndir))]
                              ELSE [k \in 1..Len(s.frequencies) |->
                                      [x \in 1..ndir |-> junk]]]],
                 !.directions = Directions(ndir)])

(***************************************************************************)
(* readfile, last part: the spectrum, or Hm0 as the energy.  Hm0 is a      *)
(* Python list, and a list cannot be indexed with [:,None,None,None].      *)
(***************************************************************************)
readfile_energy ==
    /\ pc = "readfile_energy"
    /\ \E junk \in Junk(self) :
         LET r == IF any(self.frequencies)
                  THEN compute_spectrum(self, DefaultNdir, junk)
                  ELSE Fail(self, "TypeError", "readfile")
         IN  /\ err' = r.e
             /\ self' = IF r.e = NoErr
                        THEN [r.s EXCEPT !.energy_units = "m^2/Hz"]
                        ELSE r.s
    /\ pc' = "idle"
    /\ UNCHANGED <<call, calls, ow>>

(***************************************************************************)
(* The other public methods, called on an idle reader.                     *)
(***************************************************************************)
call_compute_spectrum(ndir) ==
    /\ pc = "idle"
    /\ calls < MaxCalls
    /\ \E junk \in Junk(self) :
         LET r == compute_spectrum(self, ndir, junk)
         IN  self' = r.s /\ err' = r.e
    /\ call' = Called("compute_spectrum", ndir)
    /\ calls' = calls + 1
    /\ UNCHANGED <<pc, ow>>

to_oceanwaves ==
    /\ pc = "idle"
    /\ calls < MaxCalls
    /\ LET e == IF ~Has(self, "longitude") \/ ~Has(self, "latitude")
                THEN Raise("AttributeError", "to_oceanwaves")
                ELSE IF self.energy.type = "list"
                     THEN Raise("TypeError", "to_oceanwaves")
                ELSE NoErr
           kwargs == [location |-> << <<self.longitude, self.latitude>> >>,
                      location_units |-> "deg",
                      frequency |-> self.frequencies,
                      frequency_units |-> "Hz",
                      frequency_convention |-> "absolute",
                      energy |-> self.energy.a,
                      energy_units |-> self.energy_units,
                      time |-> self.time,
                      time_units |-> "s",
                      attrs |-> [comments |-> self.comments]]
           dirs == [direction |-> self.directions,
                    direction_units |-> "deg",
                    direction_convention |-> "nautical"]
       IN  /\ err' = e
           /\ ow' = IF e # NoErr THEN ow
                    ELSE IF self.directional THEN <<kwargs @@ dirs>>
                    ELSE <<kwargs>>
    /\ call' = Called("to_oceanwaves", 0)
    /\ calls' = calls + 1
    /\ UNCHANGED <<self, pc>>

call_reset ==
    /\ pc = "idle"
    /\ calls < MaxCalls
    /\ self' = reset(self)
    /\ err' = NoErr
    /\ call' = Called("reset", 0)
    /\ calls' = calls + 1
    /\ UNCHANGED <<pc, ow>>

\* __call__: reset, then self.read, an attribute the class does not have
__call__ ==
    /\ pc = "idle"
    /\ calls < MaxCalls
    /\ self' = reset(self)
    /\ err' = Raise("AttributeError", "__call__")
    /\ call' = Called("__call__", 0)
    /\ calls' = calls + 1
    /\ UNCHANGED <<pc, ow>>

Methods ==
    \/ parse_header
    \/ parse_data
    \/ make_aware
    \/ readfile_energy
    \/ \E ndir \in 0..MaxNdir : call_compute_spectrum(ndir)
    \/ to_oceanwaves
    \/ call_reset
    \/ __call__

\* one file per reader object
Next ==
    \/ \E f \in Files : ~Has(self, "lines") /\ readfile(f)
    \/ Methods

\* several files read by the same reader object
NextSeq ==
    \/ \E f \in SeqFiles : readfile(f)
    \/ Methods

Spec == Init /\ [][Next]_vars

SpecSeq == Init /\ [][NextSeq]_vars
(***************************************************************************)
(* How far the readfile call in progress, or the one that ended last, got. *)
(***************************************************************************)
Reading == call.method = "readfile"

\* parse_header returned
AfterHeader ==
    /\ Reading
    /\ \/ pc \in {"parse_data", "make_aware", "readfile_energy"}
       \/ pc = "idle" /\ err.in \in {"none", "parse_data", "make_aware", "readfile",
                                     "compute_spectrum", "add_magdec"}

\* parse_header ended, by returning or by running past the last line
HeaderEnded == AfterHeader \/ (Reading /\ pc = "idle" /\ err.in = "_currentline")

\* parse_data returned
AfterData ==
    /\ Reading
    /\ \/ pc \in {"make_aware", "readfile_energy"}
       \/ pc = "idle" /\ err.in \in {"none", "make_aware", "readfile",
                                     "compute_spectrum", "add_magdec"}

\* readfile returned
Completed == Reading /\ pc = "idle" /\ err = NoErr

\* compute_spectrum returned, called directly or by readfile
Reconstructed ==
    /\ pc = "idle"
    /\ err = NoErr
    /\ call.method \in {"readfile", "compute_spectrum"}

\* 0-based index of the first line that starts with a digit, Len if none
FirstDigit(lines) ==
    LET ds == {x \in 1..Len(lines) : MatchDigit(lines[x])}
    IN  IF ds = {} THEN Len(lines) ELSE Min(ds) - 1

Body == _currentlines(self)
F == Len(self.frequencies)

\* the frequencies lines of the header block of the file
FreqLines(lines) ==
    {x \in 1..FirstDigit(lines) : lines[x].key = "frequencies"}

(***************************************************************************)
(* C1: for every input, parse_header ends normally with the line counter   *)
(* at the index of the first digit-initial line (the number of lines when  *)
(* there is none), and a file without one yields empty record sequences.   *)
(***************************************************************************)
C1_HeaderStopsAtFirstDigitLine ==
    HeaderEnded =>
        /\ err.in # "_currentline"
        /\ self.n = FirstDigit(self.lines)
        /\ \A x \in 1..self.n : ~MatchDigit(self.lines[x])
        /\ self.n < Len(self.lines) => MatchDigit(self.lines[self.n + 1])

(***************************************************************************)
(* C2: after parse_data of the one file a fresh reader reads, time and the *)
(* six scalar sequences have one entry per body line, entry i taken from   *)
(* body line i, in line order.                                             *)
(***************************************************************************)
C2_OrderPreserved ==
    AfterData =>
        /\ Len(self.time) = Len(Body)
        /\ \A i \in 1..Len(Body) :
              /\ self.time[i].t = strptime(Body[i].fields[1][1])
              /\ self.Hm0[i] = float(Body[i].fields[2][1])
              /\ self.Tp[i] = float(Body[i].fields[3][1])
              /\ self.Dirp[i] = float(Body[i].fields[4][1])
              /\ self.Tavg[i] = float(Body[i].fields[5][1])
              /\ self.Hmax[i] = float(Body[i].fields[6][1])
              /\ self.Tmax[i] = float(Body[i].fields[7][1])
        /\ \A q \in {self.Hm0, self.Tp, self.Dirp, self.Tavg, self.Hmax, self.Tmax} :
              Len(q) = Len(Body)

\* two records whose timestamps descend, kept in line order
C2_Witness ==
    /\ AfterData
    /\ Len(Body) >= 2
    /\ self.time[1].t > self.time[2].t
    /\ self.time[1].tz = "UTC"

(***************************************************************************)
(* C3: every body line parse_data accepts has exactly 7 fields when the    *)
(* frequency axis is empty and exactly 12 fields when it is not.           *)
(***************************************************************************)
C3_FieldCountEnforced ==
    AfterData =>
        \A i \in 1..Len(Body) :
            Len(split(Body[i])) = IF F = 0 THEN 7 ELSE 12

(***************************************************************************)
(* C4: a frequencies line with an empty list is not an error, a header     *)
(* without a frequencies line leaves the axis empty, and the records go    *)
(* through the spectral branch exactly when the axis is not empty.         *)
(***************************************************************************)
C4_BranchByAxisLength ==
    /\ (Reading /\ pc = "idle" /\ err.in = "parse_freq") =>
           _currentline(self).fields[1] # <<"">>
    /\ (AfterHeader /\ FreqLines(self.lines) = {}) => F = 0
    /\ AfterData =>
           /\ self.directional <=> F > 0
           /\ Has(self, "Puu") <=> F > 0

(***************************************************************************)
(* C5: in every record parse_data accepts on the spectral branch, the five *)
(* moment vectors have the length of the frequency axis.                   *)
(***************************************************************************)
C5_MomentLengths ==
    (AfterData /\ Has(self, "Puu")) =>
        \A i \in 1..Len(Body) : RowLens(self, i) = {F}

(***************************************************************************)
(* C6: a call of compute_spectrum with an odd ndir raises ValueError and   *)
(* leaves energy and directions as they were; a call with an even ndir on  *)
(* a well-formed parse returns and sets both.                              *)
(***************************************************************************)
\* the reader holds the records of a spectral file readfile accepted
WellParsed(s) ==
    /\ s.energy_units = "m^2/Hz"
    /\ Has(s, "th0") /\ Has(s, "magdec")
    /\ \A q \in {s.Puu, s.th0, s.m1, s.m2, s.n2} : Len(q) = Len(s.time)
    /\ \A i \in 1..Len(s.time) : RowLens(s, i) = {Len(s.frequencies)}

ComputeCalled == call'.method = "compute_spectrum" /\ calls' = calls + 1

OddRejected ==
    (ComputeCalled /\ call'.ndir % 2 = 1) =>
        /\ err' = Raise("ValueError", "compute_spectrum")
        /\ self'.energy = self.energy
        /\ self'.directions = self.directions

EvenDone ==
    /\ err' = NoErr
    /\ self'.energy.type = "ndarray"
    /\ Len(self'.energy.a) = Len(self.time)
    /\ Len(self'.directions) = call'.ndir

\* C6 as stated: every even ndir, 0 included, completes on a well-formed parse
C6_EvenNdirOnly ==
    [][ /\ OddRejected
        /\ (ComputeCalled /\ call'.ndir % 2 = 0 /\ WellParsed(self)) => EvenDone
      ]_vars

\* C6 as amended: odd ndir is refused, every positive even ndir completes
C6_PositiveEvenNdirOnly ==
    [][ /\ OddRejected
        /\ (ComputeCalled /\ call'.ndir % 2 = 0 /\ call'.ndir > 0 /\ WellParsed(self))
              => EvenDone
      ]_vars

\* an odd ndir refused on a reader that holds the spectrum of a file
C6_Witness ==
    /\ call.method = "compute_spectrum"
    /\ call.ndir % 2 = 1
    /\ err = Raise("ValueError", "compute_spectrum")
    /\ self.energy.type = "ndarray"
    /\ self.energy.a # <<>>
    /\ Len(self.directions) = DefaultNdir

(***************************************************************************)
(* C7: after compute_spectrum, directions has ndir entries, entry j is     *)
(* j*360/ndir, and energy at direction index j is the value the loop       *)
(* computed at lattice index (j + ndir/2) mod ndir; the lattice angle at   *)
(* index ndir/2 is 0.                                                      *)
(***************************************************************************)
C7_DirectionAxisAligned ==
    Reconstructed =>
        LET ndir == call.ndir
        IN  /\ Len(self.directions) = ndir
            /\ \A j \in 0..(ndir - 1) :
                  self.directions[j + 1] = Rat(j * FullCircle, ndir)
            /\ Rad(ndir)[ndir \div 2 + 1] = <<0, 1>>
            /\ \A i \in 1..Zipped(self) :
                  LET row == SpecRow(self, i, self.th0_cor[i], ndir)
                  IN  \A k \in 1..F : \A j \in 0..(ndir - 1) :
                        self.energy.a[i][k][j + 1]
                            = row[k][((j + ndir \div 2) % ndir) + 1]

\* four direction bins holding different values of one record
C7_Witness ==
    /\ Reconstructed
    /\ call.ndir = 4
    /\ self.directions = << <<0, 1>>, <<90, 1>>, <<180, 1>>, <<270, 1>> >>
    /\ Zipped(self) >= 1 /\ F >= 1
    /\ self.energy.a[1][1][1] # self.energy.a[1][1][2]
    /\ self.energy.a[1][1][1].q = <<0, 1>>
(***************************************************************************)
(* C8: the spectrum computed with magdec = D degrees is the spectrum       *)
(* computed with magdec = 0 moved along the direction axis by D*ndir/360   *)
(* bins (in one of the two senses of rotation), whenever that is a whole   *)
(* number of bins.  ref(j) is direction bin j of the magdec = 0 spectrum:  *)
(* the loop's values for the uncorrected th0, rolled by ndir/2.            *)
(***************************************************************************)
C8_MagdecRotates ==
    (Reconstructed /\ (self.magdec * call.ndir) % FullCircle = 0) =>
        LET ndir == call.ndir
            off == (self.magdec * ndir) \div FullCircle
        IN  \A i \in 1..Zipped(self) :
              LET row == SpecRow(self, i, self.th0[i], ndir)
              IN  \A k \in 1..F :
                    LET got == self.energy.a[i][k]
                        ref(j) == row[k][((j - RollShift(ndir)) % ndir) + 1]
                    IN  \/ \A j \in 0..(ndir - 1) :
                              got[((j + off) % ndir) + 1] = ref(j)
                        \/ \A j \in 0..(ndir - 1) :
                              got[((j - off) % ndir) + 1] = ref(j)

(***************************************************************************)
(* C9: readfile completes on every well-formed file; energy_units is       *)
(* 'm^2/Hz' and a direction axis is handed off when the file declares      *)
(* frequencies, 'm' with one Hm0 per record and no direction axis when it  *)
(* declares none; energy_units is set after every completed readfile.      *)
(***************************************************************************)
RecordsOf(lines) == SubSeq(lines, FirstDigit(lines) + 1, Len(lines))

\* number of frequencies the header declares
Declared(lines) ==
    IF FreqLines(lines) = {} THEN 0
    ELSE Len(lines[Max(FreqLines(lines))].fields[1])

HasField(lines, k, ok) ==
    \E x \in 1..FirstDigit(lines) : lines[x].key = k /\ Value(lines[x]) \in ok

WellFormedRecord(line, nf) ==
    /\ line.key = ""
    /\ Len(line.fields) = IF nf = 0 THEN 7 ELSE 12
    /\ IsTimeField(line.fields[1])
    /\ \A x \in 2..7 : IsFloatField(line.fields[x])
    /\ \A x \in 8..Len(line.fields) :
          IsFloatList(line.fields[x]) /\ Len(line.fields[x]) = nf

WellFormedFile(lines) ==
    /\ RecordsOf(lines) # <<>>
    /\ HasField(lines, "timezone", KnownZones)
    /\ HasField(lines, "magdec", FloatTok)
    /\ HasField(lines, "latitude", FloatTok)
    /\ HasField(lines, "longitude", FloatTok)
    /\ \A x \in FreqLines(lines) :
          \A y \in 1..Len(lines[x].fields[1]) :
              lines[x].fields[1][y] \in FloatTok \ {"0"}
    /\ \A x \in 1..Len(RecordsOf(lines)) :
          WellFormedRecord(RecordsOf(lines)[x], Declared(lines))

C9_EnergyMatchesVariant ==
    /\ (Reading /\ pc = "idle" /\ WellFormedFile(self.lines)) =>
          /\ err = NoErr
          /\ self.energy.type = "ndarray"
          /\ Len(self.energy.a) = Len(RecordsOf(self.lines))
          /\ self.energy_units = IF Declared(self.lines) > 0 THEN "m^2/Hz" ELSE "m"
    /\ (call.method = "to_oceanwaves" /\ err = NoErr /\ WellFormedFile(self.lines)) =>
          /\ "direction" \in DOMAIN ow[1] <=> Declared(self.lines) > 0
          /\ "direction" \in DOMAIN ow[1] =>
                /\ ow[1].direction_units = "deg"
                /\ ow[1].direction_convention = "nautical"
    /\ Completed => self.energy_units # "None"

(***************************************************************************)
(* C10: after parse_data of any readfile call, whatever the reader read    *)
(* before, time and Hm0 have one entry per record of the file just read,   *)
(* and comments, frequencies and the directional flag are those of that    *)
(* file alone.                                                             *)
(***************************************************************************)
\* what parse_header yields for the file on a reader that read nothing before
Alone(lines) == HeaderLoop([reset(Bare) EXCEPT !.lines = lines]).s

C10_OnlyMostRecentFile ==
    AfterData =>
        /\ Len(self.time) = Len(Body)
        /\ Len(self.time) = Len(self.Hm0)
        /\ self.comments = Alone(self.lines).comments
        /\ self.frequencies = Alone(self.lines).frequencies
        /\ self.directional <=> any(Alone(self.lines).frequencies)
====
